---- MODULE Spec2Model ----
(***************************************************************************)
(* A model of fix_questions.py: the three text transforms                  *)
(* (clean_explanation, clean_code_comments, fix_newline_display), the      *)
(* per-file pass process_question_file and the driver main.                *)
(*                                                                         *)
(* Strings are sequences of tokens.  A token is either one character or a  *)
(* literal of the source taken as one unit ("Correct!", "// Equivalent     *)
(* to:", "Hello", ...).  The alphabets below are chosen so that no literal *)
(* of the source arises by concatenating other tokens, hence a prefix or   *)
(* substring test of the source is a test on tokens.                       *)
(* Python's None is the value None below; a key that a JSON object lacks   *)
(* is the value Absent.  Both are one-token sequences whose token lies in  *)
(* no alphabet, so they differ from every string.                          *)
(***************************************************************************)
EXTENDS Integers, Sequences, FiniteSets, TLC

VARIABLES pc, arg, res, fs, idx, total, out, hist

vars == <<pc, arg, res, fs, idx, total, out, hist>>

\* ------------------------------------------------------------- bounds
MaxExplLen == 6
MaxCodeLen == 6
MaxTextLen == 5
MaxPad == 1
MaxCalls == 2
MaxQuestions == 2
MaxOptions == 2
MaxRuns == 2

\* ------------------------------------------------------------- values
None == <<"<None>">>
Absent == <<"<Absent>">>

\* Python's \s and str.strip()/rstrip() whitespace, as far as the alphabets go.
Whitespace == {" ", "\t", "\n", "\r"}

\* All sequences over S of length at most n.
SeqsUpTo(S, n) == UNION {[1..k -> S] : k \in 0..n}

\* The element of a one-element set.  In The({e(x) : x \in {v}}) the value v
\* is computed once and named x, as a local variable of the source is.
The(S) == CHOOSE x \in S : TRUE

\* `not x` for x a string or None
Falsy(x) == x = None \/ x = <<>>

\* ------------------------------------------------- clean_explanation
\* s without its first token
Tail1(s) == SubSeq(s, 2, Len(s))

\* s without its leading whitespace tokens (the \s* of the patterns)
RECURSIVE DropLeadingSpace(_)
DropLeadingSpace(s) ==
  IF s # <<>> /\ s[1] \in Whitespace THEN DropLeadingSpace(Tail1(s)) ELSE s

\* re.sub(r'^<lit>\s*', '', s): the pattern is anchored at the start of the
\* string (no MULTILINE flag), so at most one match is replaced; \s* also
\* matches no whitespace at all.
ReSubPrefix(lit, s) ==
  IF s # <<>> /\ s[1] = lit THEN DropLeadingSpace(Tail1(s)) ELSE s

\* re.sub(r'<lit>\s*', '', s) without the anchor: every occurrence goes.
RECURSIVE ReSubAnywhere(_, _)
ReSubAnywhere(lit, s) ==
  IF s = <<>> THEN <<>>
  ELSE IF s[1] = lit THEN ReSubAnywhere(lit, DropLeadingSpace(Tail1(s)))
       ELSE <<s[1]>> \o ReSubAnywhere(lit, Tail1(s))

clean_explanation_unanchored(explanation) ==
  IF Falsy(explanation) THEN explanation
  ELSE ReSubAnywhere("Incorrect.", ReSubAnywhere("Correct!", explanation))

clean_explanation(explanation) ==
  IF Falsy(explanation) THEN explanation
  ELSE ReSubPrefix("Incorrect.", ReSubPrefix("Correct!", explanation))

\* ----------------------------------------------- clean_code_comments
EquivalentMarker == "// Equivalent to:"

DropMarkers ==
  { "// Both produce the same result",
    "// Safe - doesn't block",
    "// Dangerous - can deadlock",
    "// Appears immediately",
    "// May be buffered",
    "// Forces immediate output" }

\* Tokens that begin with the two characters "//".
SlashTokens == {"//", EquivalentMarker} \cup DropMarkers

\* lit in line
Contains(line, lit) == \E k \in 1..Len(line) : line[k] = lit

\* code.split('\n'): always at least one line
RECURSIVE SplitFrom(_, _, _)
SplitFrom(s, k, cur) ==
  IF k > Len(s) THEN <<cur>>
  ELSE IF s[k] = "\n" THEN <<cur>> \o SplitFrom(s, k + 1, <<>>)
       ELSE SplitFrom(s, k + 1, Append(cur, s[k]))

Split(s) == SplitFrom(s, 1, <<>>)

\* '\n'.join(lines)
RECURSIVE Join(_)
Join(lines) ==
  IF lines = <<>> THEN <<>>
  ELSE IF Len(lines) = 1 THEN lines[1]
       ELSE lines[1] \o <<"\n">> \o Join(Tail(lines))

\* Only one trailing line break removed.
RStripOneNewline(s) ==
  IF s # <<>> /\ s[Len(s)] = "\n" THEN SubSeq(s, 1, Len(s) - 1) ELSE s

\* s.rstrip()
RECURSIVE RStrip(_)
RStrip(s) ==
  IF s # <<>> /\ s[Len(s)] \in Whitespace
  THEN RStrip(SubSeq(s, 1, Len(s) - 1)) ELSE s

\* line.strip().startswith('//')
IsCommentLine(line) ==
  LET t == DropLeadingSpace(line) IN t # <<>> /\ t[1] \in SlashTokens

IsDropMarkerLine(line) == \E m \in DropMarkers : Contains(line, m)

\* The loop over enumerate(lines), from line i on: the indices of the lines
\* appended to cleaned_lines.  skip_next is left as it is by the first
\* `continue` and is cleared by every line that gets past it.
RECURSIVE KeptFrom(_, _, _)
KeptFrom(lines, i, skip_next) ==
  IF i > Len(lines) THEN <<>>
  ELSE IF skip_next /\ IsCommentLine(lines[i])
       THEN KeptFrom(lines, i + 1, skip_next)
       ELSE IF Contains(lines[i], EquivalentMarker)
            THEN KeptFrom(lines, i + 1, TRUE)
            ELSE IF IsDropMarkerLine(lines[i])
                 THEN KeptFrom(lines, i + 1, FALSE)
                 ELSE <<i>> \o KeptFrom(lines, i + 1, FALSE)

\* The same loop with the flag cleared after one skipped line.
RECURSIVE KeptFromSkipOne(_, _, _)
KeptFromSkipOne(lines, i, skip_next) ==
  IF i > Len(lines) THEN <<>>
  ELSE IF skip_next /\ IsCommentLine(lines[i])
       THEN KeptFromSkipOne(lines, i + 1, FALSE)
       ELSE IF Contains(lines[i], EquivalentMarker)
            THEN KeptFromSkipOne(lines, i + 1, TRUE)
            ELSE IF IsDropMarkerLine(lines[i])
                 THEN KeptFromSkipOne(lines, i + 1, FALSE)
                 ELSE <<i>> \o KeptFromSkipOne(lines, i + 1, FALSE)

KeptSkipOne(lines) == KeptFromSkipOne(lines, 1, FALSE)

\* The same loop that skips the line after a marker line whatever it is.
RECURSIVE KeptFromSkipAny(_, _, _)
KeptFromSkipAny(lines, i, skip_next) ==
  IF i > Len(lines) THEN <<>>
  ELSE IF skip_next
       THEN KeptFromSkipAny(lines, i + 1, FALSE)
       ELSE IF Contains(lines[i], EquivalentMarker)
            THEN KeptFromSkipAny(lines, i + 1, TRUE)
            ELSE IF IsDropMarkerLine(lines[i])
                 THEN KeptFromSkipAny(lines, i + 1, FALSE)
                 ELSE <<i>> \o KeptFromSkipAny(lines, i + 1, FALSE)

KeptSkipAny(lines) == KeptFromSkipAny(lines, 1, FALSE)

\* The indices kept by the whole loop (skip_next = False before it).
KeptIndices(lines) == KeptFrom(lines, 1, FALSE)

cleaned_lines(lines) ==
  LET kept == KeptIndices(lines) IN [k \in 1..Len(kept) |-> lines[kept[k]]]

clean_code_comments(code) ==
  IF Falsy(code) THEN code
  ELSE RStrip(Join(cleaned_lines(Split(code))))

\* ----------------------------------------------- fix_newline_display
\* "Hello\\nWorld\\tTab" of the source: backslash-n and backslash-t are two
\* characters each, here the tokens "\\n" and "\\t".
EscapedLiteral == <<"Hello", "\\n", "World", "\\t", "Tab">>

\* "Hello\nWorld\tTab" of the source: a line break and a tab.
DisplayedLiteral == <<"Hello", "\n", "World", "\t", "Tab">>

\* text starts with lit
StartsWith(text, lit) ==
  Len(text) >= Len(lit) /\ SubSeq(text, 1, Len(lit)) = lit

fix_newline_display_prefix(text) ==
  IF text # None /\ StartsWith(text, EscapedLiteral)
  THEN DisplayedLiteral \o SubSeq(text, Len(EscapedLiteral) + 1, Len(text))
  ELSE text

fix_newline_display(text) ==
  IF text = EscapedLiteral THEN DisplayedLiteral ELSE text

\* -------------------------------------------- process_question_file
\* A document is [version, questions]; a question is [id, title, options,
\* codeExample]; an option is [id, text, explanation, isCorrect]; a code
\* example is [present, code, language], present = FALSE for a question
\* without the key "codeExample".  text, explanation and code are strings,
\* None (a JSON null) or Absent (no such key).  version, title, isCorrect
\* and language stand for the keys the script never looks at.
Replacement == <<"This would be the result if evaluated differently.">>

RECURSIVE SumSeq(_)
SumSeq(s) == IF s = <<>> THEN 0 ELSE s[1] + SumSeq(Tail(s))

\* d.get(key, '')
GetOrEmpty(v) == IF v = Absent THEN <<>> ELSE v

\* The comparison forgotten: every field counts and is assigned.
AlwaysChanged(original, cleaned) == TRUE

\* cleaned_explanation != original_explanation
ExplanationChanged(original, cleaned) == cleaned # original

\* The body of the loop over the options of a question.
CleanOption(option) ==
  LET original_explanation == GetOrEmpty(option.explanation)
      cleaned_explanation == clean_explanation(original_explanation)
      explChanged == ExplanationChanged(original_explanation, cleaned_explanation)
      original_text == GetOrEmpty(option.text)
      fixed_text == fix_newline_display(original_text)
      textChanged == fixed_text # original_text
  IN [option |->
        [option EXCEPT
           !.explanation = IF explChanged THEN cleaned_explanation ELSE @,
           !.text = IF textChanged THEN fixed_text ELSE @],
      explanation |-> IF explChanged THEN 1 ELSE 0,
      text |-> IF textChanged THEN 1 ELSE 0]

\* question.setdefault('codeExample', {}) in place of get: the key appears.
CleanCodeExampleSetDefault(code_example) ==
  IF code_example.present /\ code_example.code # Absent
  THEN LET cleaned_code == clean_code_comments(code_example.code)
       IN [code_example |-> [code_example EXCEPT !.code = cleaned_code],
           code |-> IF cleaned_code # code_example.code THEN 1 ELSE 0]
  ELSE [code_example |-> [code_example EXCEPT !.present = TRUE], code |-> 0]

\* code_example = question.get('codeExample', {}) and the `if 'code' in` block
CleanCodeExample(code_example) ==
  IF code_example.present /\ code_example.code # Absent
  THEN LET cleaned_code == clean_code_comments(code_example.code)
       IN [code_example |->
             IF cleaned_code # code_example.code
             THEN [code_example EXCEPT !.code = cleaned_code]
             ELSE code_example,
           code |-> IF cleaned_code # code_example.code THEN 1 ELSE 0]
  ELSE [code_example |-> code_example, code |-> 0]

\* for option in question.get('options', [])
RECURSIVE CleanOptions(_)
CleanOptions(options) ==
  IF options = <<>> THEN <<>>
  ELSE <<CleanOption(options[1])>> \o CleanOptions(Tail(options))

\* The options, or the counts of one field, out of CleanOptions' results.
RECURSIVE Project(_, _)
Project(rs, field) ==
  IF rs = <<>> THEN <<>> ELSE <<rs[1][field]>> \o Project(Tail(rs), field)

\* The body of the first loop over the questions; the counts are the
\* increments of `modifications`, field by field.
CleanQuestion(question) ==
  The({ [question |->
           [question EXCEPT
              !.options = Project(opts, "option"),
              !.codeExample = ce.code_example],
         explanation |-> Project(opts, "explanation"),
         text |-> Project(opts, "text"),
         code |-> ce.code] :
        opts \in {CleanOptions(question.options)},
        ce \in {CleanCodeExample(question.codeExample)} })

\* 'operators-mc.json' in str(filepath)
PatchApplies(filepath) == Contains(filepath, "operators-mc.json")

IsPatched(filepath, question, option) ==
  PatchApplies(filepath) /\ question.id = "op-0001" /\ option.id = "b"

\* The overwrite done only for an explanation that is there and not empty.
PatchOptionIfPresent(option) ==
  IF option.id = "b" /\ ~Falsy(GetOrEmpty(option.explanation))
  THEN [option EXCEPT !.explanation = Replacement]
  ELSE option

\* The body of the loop over the options of op-0001
PatchOption(option) ==
  IF option.id = "b" THEN [option EXCEPT !.explanation = Replacement] ELSE option

\* The patch not counted.
PatchCountNone(option) == 0

\* modifications += 1 beside the overwrite
PatchCount(option) == IF option.id = "b" THEN 1 ELSE 0

\* n zeros, and the sum of two sequences of counts, place by place
RECURSIVE Zeros(_)
Zeros(n) == IF n = 0 THEN <<>> ELSE <<0>> \o Zeros(n - 1)

RECURSIVE AddSeq(_, _)
AddSeq(s, t) ==
  IF s = <<>> THEN <<>> ELSE <<s[1] + t[1]>> \o AddSeq(Tail(s), Tail(t))

\* for option in question.get('options', []) of the patch
RECURSIVE PatchOptions(_)
PatchOptions(options) ==
  IF options = <<>> THEN <<>>
  ELSE <<[option |-> PatchOption(options[1]), explanation |-> PatchCount(options[1])]>>
         \o PatchOptions(Tail(options))

\* The body of the second loop over the questions, for a file the patch
\* applies to (applies) or not.
PatchQuestion(applies, question) ==
  IF applies /\ question.id = "op-0001"
  THEN The({ [question |-> [question EXCEPT !.options = Project(opts, "option")],
              explanation |-> Project(opts, "explanation")] :
             opts \in {PatchOptions(question.options)} })
  ELSE [question |-> question,
        explanation |-> Zeros(Len(question.options))]

\* Both loops over the questions: each question cleaned, then patched, with
\* the increments of `modifications` field by field.  The second loop runs
\* after the first has ended; no question reads another, so question by
\* question is the same.
RECURSIVE ProcessQuestions(_, _)
ProcessQuestions(applies, questions) ==
  IF questions = <<>> THEN <<>>
  ELSE The({ The({ << [question |-> p.question,
                       explanation |-> AddSeq(c.explanation, p.explanation),
                       text |-> c.text,
                       code |-> c.code] >> :
                   p \in {PatchQuestion(applies, c.question)} }) :
             c \in {CleanQuestion(questions[1])} })
         \o ProcessQuestions(applies, Tail(questions))

\* The increments of one question, summed.
RECURSIVE CountAll(_)
CountAll(qs) ==
  IF qs = <<>> THEN 0
  ELSE SumSeq(qs[1].explanation) + SumSeq(qs[1].text) + qs[1].code
         + CountAll(Tail(qs))

\* The keys of fieldMods: the counts without the questions.
RECURSIVE FieldMods(_)
FieldMods(qs) ==
  IF qs = <<>> THEN <<>>
  ELSE << [explanation |-> qs[1].explanation, text |-> qs[1].text,
           code |-> qs[1].code] >> \o FieldMods(Tail(qs))

\* process_question_file between json.load and json.dump: the document
\* written, the count returned, and the count field by field (fieldMods).
process_question_file(filepath, data) ==
  The({ [data |-> [data EXCEPT !.questions = Project(qs, "question")],
         modifications |-> CountAll(qs),
         fieldMods |-> FieldMods(qs)] :
        qs \in {ProcessQuestions(PatchApplies(filepath), data.questions)} })

\* --------------------------------------------------------------- main
base_path == <<"/home/jacklee/CSharp-Card/public/data/questions">>

files_to_process ==
  << <<"basics", "/", "console-output-mc.json">>,
     <<"basics", "/", "operators-mc.json">>,
     <<"basics", "/", "data-types-mc.json">>,
     <<"intermediate", "/", "collections-mc.json">>,
     <<"intermediate", "/", "oop-fundamentals-mc.json">>,
     <<"advanced", "/", "async-await-mc.json">>,
     <<"advanced", "/", "generics-mc.json">>,
     <<"expert", "/", "reflection-mc.json">> >>

\* base_path / file_path
FullPath(file_path) == base_path \o <<"/">> \o file_path

\* A file of the file system: exists, parses as JSON (valid), and its data.
EmptyDoc == [version |-> "1.0", questions |-> <<>>]
MissingFile == [exists |-> FALSE, valid |-> FALSE, data |-> EmptyDoc]
MalformedFile == [exists |-> TRUE, valid |-> FALSE, data |-> EmptyDoc]
FileOf(data) == [exists |-> TRUE, valid |-> TRUE, data |-> data]

Line(kind, path, n) == [kind |-> kind, path |-> path, n |-> n]

\* One run of process_question_file(filepath) on a file that parses: the
\* file is rewritten, the two lines are printed, the count is returned.
RunRecord(filepath) ==
  The({ [path |-> filepath,
         loaded |-> fs[filepath].data,
         written |-> r.data,
         modifications |-> r.modifications,
         fieldMods |-> r.fieldMods] :
        r \in {process_question_file(filepath, fs[filepath].data)} })

ProcessEffects(filepath) ==
  \E run \in {RunRecord(filepath)} :
    /\ fs' = [fs EXCEPT ![filepath] = FileOf(run.written)]
    /\ out' = out \o << Line("Processing", filepath, 0),
                        Line("Made", filepath, run.modifications) >>
    /\ hist' = Append(hist, run)

\* json.load raises: nothing is written and the exception propagates.
RaiseEffects(filepath) ==
  /\ out' = Append(out, Line("Processing", filepath, 0))
  /\ pc' = "raised"
  /\ UNCHANGED <<fs, hist>>

\* The loop variable after the else branch: break in place of going on.
BreakAfterMissing(i) == Len(files_to_process) + 1

\* The loop goes on with the next path after the warning.
NextAfterMissing(i) == i + 1

MainProcessFile ==
  /\ pc = "main"
  /\ idx <= Len(files_to_process)
  /\ LET full_path == FullPath(files_to_process[idx])
     IN /\ fs[full_path].exists
        /\ fs[full_path].valid
        /\ ProcessEffects(full_path)
        /\ total' = total + hist'[Len(hist')].modifications
  /\ idx' = idx + 1
  /\ UNCHANGED <<pc, arg, res>>

MainProcessRaises ==
  /\ pc = "main"
  /\ idx <= Len(files_to_process)
  /\ LET full_path == FullPath(files_to_process[idx])
     IN /\ fs[full_path].exists
        /\ ~fs[full_path].valid
        /\ RaiseEffects(full_path)
  /\ UNCHANGED <<arg, res, idx, total>>

MainWarnMissing ==
  /\ pc = "main"
  /\ idx <= Len(files_to_process)
  /\ LET full_path == FullPath(files_to_process[idx])
     IN /\ ~fs[full_path].exists
        /\ out' = Append(out, Line("Warning", full_path, 0))
  /\ idx' = NextAfterMissing(idx)
  /\ UNCHANGED <<pc, arg, res, fs, total, hist>>

MainFinish ==
  /\ pc = "main"
  /\ idx > Len(files_to_process)
  /\ out' = out \o << Line("Total", <<>>, total), Line("AllCleaned", <<>>, 0) >>
  /\ pc' = "done"
  /\ UNCHANGED <<arg, res, fs, idx, total, hist>>

\* ------------------------------------- the transforms, one at a time
\* Each transform is applied to an input drawn from a bounded set of strings
\* and then again to its own result, as successive runs of the script do
\* with the fields of a file.  res holds the results in order.
ExplAlphabet == {"Correct!", "Incorrect.", " ", "\n", "y"}
CodeAlphabet == {"\n", " ", "x", "//", EquivalentMarker, "// May be buffered"}
TextAlphabet == {"Hello", "hello", "\\n", "World", "\\t", "Tab", " "}

ExplInputs == SeqsUpTo(ExplAlphabet, MaxExplLen) \cup {None}
CodeInputs == SeqsUpTo(CodeAlphabet, MaxCodeLen) \cup {None}
TextInputs ==
  SeqsUpTo(TextAlphabet, MaxTextLen) \cup {None}
    \cup {p \o EscapedLiteral \o s : p, s \in SeqsUpTo(TextAlphabet, MaxPad)}

\* The value the next call is applied to.
Current == IF res = <<>> THEN arg ELSE res[Len(res)]

NoFiles ==
  /\ fs = <<>>
  /\ idx = 0
  /\ total = 0
  /\ out = <<>>
  /\ hist = <<>>

InitExpl == pc = "clean_explanation" /\ arg \in ExplInputs /\ res = <<>> /\ NoFiles
InitCode == pc = "clean_code_comments" /\ arg \in CodeInputs /\ res = <<>> /\ NoFiles
InitText == pc = "fix_newline_display" /\ arg \in TextInputs /\ res = <<>> /\ NoFiles

CallCleanExplanation ==
  /\ pc = "clean_explanation"
  /\ Len(res) < MaxCalls
  /\ res' = Append(res, clean_explanation(Current))
  /\ UNCHANGED <<pc, arg, fs, idx, total, out, hist>>

CallCleanCodeComments ==
  /\ pc = "clean_code_comments"
  /\ Len(res) < MaxCalls
  /\ res' = Append(res, clean_code_comments(Current))
  /\ UNCHANGED <<pc, arg, fs, idx, total, out, hist>>

CallFixNewlineDisplay ==
  /\ pc = "fix_newline_display"
  /\ Len(res) < MaxCalls
  /\ res' = Append(res, fix_newline_display(Current))
  /\ UNCHANGED <<pc, arg, fs, idx, total, out, hist>>

SpecExpl == InitExpl /\ [][CallCleanExplanation]_vars
SpecCode == InitCode /\ [][CallCleanCodeComments]_vars
SpecText == InitText /\ [][CallFixNewlineDisplay]_vars

\* ------------------------------------------------ the driver, one run
Yes == <<"Yes.">>

Opt(id, text, explanation) ==
  [id |-> id, text |-> text, explanation |-> explanation, isCorrect |-> id = "a"]

NoCodeExample == [present |-> FALSE, code |-> Absent, language |-> "csharp"]
CodeExampleOf(code) == [present |-> TRUE, code |-> code, language |-> "csharp"]

Question(id, options, codeExample) ==
  [id |-> id, title |-> "Q", options |-> options, codeExample |-> codeExample]

DocOf(questions) == [version |-> "1.0", questions |-> questions]

\* Two documents for the driver: one with work to do (and an op-0001 / b
\* option), one already clean.
DirtyDoc ==
  DocOf(<< Question("op-0001",
                    << Opt("a", EscapedLiteral, <<"Incorrect.", " ", "No.">>),
                       Opt("b", <<"B">>, <<"Correct!", " ", "Yes.">>) >>,
                    CodeExampleOf(<<"x", "\n", EquivalentMarker, "\n", "//">>)) >>)

CleanDoc ==
  DocOf(<< Question("q-0002", << Opt("a", <<"A">>, Yes) >>, NoCodeExample) >>)

FullPaths == {FullPath(files_to_process[k]) : k \in 1..Len(files_to_process)}

DriverFiles == {MissingFile, FileOf(DirtyDoc), FileOf(CleanDoc)}

\* Every path is missing, dirty or clean; at most one file is malformed.
InitMain ==
  /\ pc = "main"
  /\ arg = <<>>
  /\ res = <<>>
  /\ \E base \in [FullPaths -> DriverFiles] :
       \/ fs = base
       \/ \E bad \in FullPaths : fs = [base EXCEPT ![bad] = MalformedFile]
  /\ idx = 1
  /\ total = 0
  /\ out = <<>>
  /\ hist = <<>>

NextMain == MainProcessFile \/ MainProcessRaises \/ MainWarnMissing \/ MainFinish

SpecMain == InitMain /\ [][NextMain]_vars

\* --------------------------------- process_question_file, run by run
\* One file, processed again and again as successive runs of the script do.
\* The documents have up to MaxQuestions questions of up to MaxOptions
\* options each: all options are one filler option but one, the focus
\* option, and the question of the focus option has the code example.
ExplValues ==
  { Absent, None, Yes, Replacement,
    <<"Correct!", " ", "Yes.">>,
    <<"Correct!", "Yes.">>,
    <<"Incorrect.", " ", "Correct!", " ", "Yes.">> }

TextValues == {Absent, <<"A">>, EscapedLiteral}

FocusOptions ==
  {Opt(id, <<"A">>, e) : id \in {"a", "b"}, e \in ExplValues}
    \cup {Opt(id, t, Yes) : id \in {"a", "b"}, t \in TextValues}

FillerOptions == {Opt("a", <<"A">>, Yes), Opt("b", <<"A">>, <<"Correct!", " ", "Yes.">>)}

CodeExamples ==
  { NoCodeExample, CodeExampleOf(Absent), CodeExampleOf(<<"x">>),
    CodeExampleOf(<<EquivalentMarker, "\n", "//", "\n", "x", " ">>) }

QuestionIds == {"op-0001", "op-0002"}

Docs ==
  { DocOf([q \in 1..nq |->
             Question(ids[q],
                      [o \in 1..no |-> IF q = fq /\ o = fo THEN focus ELSE filler],
                      IF q = fq THEN ce ELSE NoCodeExample)]) :
      nq \in 1..MaxQuestions, no \in 1..MaxOptions,
      ids \in [1..MaxQuestions -> QuestionIds],
      fq \in 1..MaxQuestions, fo \in 1..MaxOptions,
      focus \in FocusOptions, filler \in FillerOptions, ce \in CodeExamples }

FilePaths ==
  { FullPath(<<"basics", "/", "operators-mc.json">>),
    FullPath(<<"basics", "/", "console-output-mc.json">>) }

InitFile ==
  /\ pc = "process_question_file"
  /\ arg \in FilePaths
  /\ res = <<>>
  /\ \E f \in {FileOf(d) : d \in Docs} \cup {MalformedFile} : fs = (arg :> f)
  /\ idx = 0
  /\ total = 0
  /\ out = <<>>
  /\ hist = <<>>

RunProcessQuestionFile ==
  /\ pc = "process_question_file"
  /\ Len(hist) < MaxRuns
  /\ fs[arg].valid
  /\ ProcessEffects(arg)
  /\ res' = Append(res, hist'[Len(hist')].modifications)
  /\ UNCHANGED <<pc, arg, idx, total>>

RunProcessRaises ==
  /\ pc = "process_question_file"
  /\ ~fs[arg].valid
  /\ RaiseEffects(arg)
  /\ UNCHANGED <<arg, res, idx, total>>

NextFile == RunProcessQuestionFile \/ RunProcessRaises

SpecFile == InitFile /\ [][NextFile]_vars

\* ------------------------------------------------ claims: transforms
Range(f) == {f[k] : k \in DOMAIN f}

\* The lines whose index is in K, in order.
RECURSIVE SelectFrom(_, _, _)
SelectFrom(lines, K, i) ==
  IF i > Len(lines) THEN <<>>
  ELSE IF i \in K THEN <<lines[i]>> \o SelectFrom(lines, K, i + 1)
       ELSE SelectFrom(lines, K, i + 1)

Select(lines, K) == SelectFrom(lines, K, 1)

HasMarker(line) == Contains(line, EquivalentMarker) \/ IsDropMarkerLine(line)

CalledOnce(f) == pc = f /\ Len(res) >= 1

StartsWithSpacedPrefix(s) ==
  StartsWith(s, <<"Correct!", " ">>) \/ StartsWith(s, <<"Incorrect.", " ">>)

StartsWithPrefixLiteral(s) ==
  StartsWith(s, <<"Correct!">>) \/ StartsWith(s, <<"Incorrect.">>)

C2_Idempotent ==
  pc = "clean_code_comments"
    => \A k \in 2..Len(res) : res[k] = res[k - 1]

C2_Witness ==
  /\ pc = "clean_code_comments"
  /\ Len(res) >= 2
  /\ arg = <<"x", "\n", EquivalentMarker, "\n", "x">>
  /\ res[1] = <<"x", "\n", "x">>
  /\ res[2] = res[1]

\* The result of the call is the kept lines joined and right-trimmed.
ResultIsKeptLines(lines, kept) == res[1] = RStrip(Join(Select(lines, kept)))

\* C3 as stated: a marker line and a comment line right after it are both
\* dropped; a line right after a marker line that is not a comment line is
\* kept.
C3_AsStated ==
  (CalledOnce("clean_code_comments") /\ ~Falsy(arg)) =>
    LET lines == Split(arg)
        kept == Range(KeptIndices(lines))
    IN /\ ResultIsKeptLines(lines, kept)
       /\ \A i \in 1..Len(lines) :
            Contains(lines[i], EquivalentMarker) =>
              /\ i \notin kept
              /\ i < Len(lines) =>
                   IF IsCommentLine(lines[i + 1])
                   THEN (i + 1) \notin kept
                   ELSE (i + 1) \in kept

\* C3 amended: a marker line and a comment line right after it are both
\* dropped; a line right after a marker line that is not a comment line and
\* contains none of the seven marker substrings is kept among the lines that
\* are joined, and it is in the result unless the final rstrip() trims it:
\* when it holds a non-blank character, the result's line at its rank among
\* the kept lines is that line, right-trimmed if it is the result's last.
C3_DropPairKeepPlain ==
  (CalledOnce("clean_code_comments") /\ ~Falsy(arg)) =>
    LET lines == Split(arg)
        kept == Range(KeptIndices(lines))
        outLines == Split(res[1])
    IN /\ ResultIsKeptLines(lines, kept)
       /\ \A i \in 1..Len(lines) :
            Contains(lines[i], EquivalentMarker) =>
              /\ i \notin kept
              /\ i < Len(lines) =>
                   IF IsCommentLine(lines[i + 1])
                   THEN (i + 1) \notin kept
                   ELSE ~HasMarker(lines[i + 1]) =>
                          /\ (i + 1) \in kept
                          /\ RStrip(lines[i + 1]) # <<>> =>
                               LET r == Cardinality({k \in kept : k <= i + 1})
                               IN /\ r <= Len(outLines)
                                  /\ \/ outLines[r] = lines[i + 1]
                                     \/ /\ r = Len(outLines)
                                        /\ outLines[r] = RStrip(lines[i + 1])

C3_Witness ==
  /\ CalledOnce("clean_code_comments")
  /\ ~Falsy(arg)
  /\ LET lines == Split(arg)
     IN /\ Len(lines) >= 3
        /\ Contains(lines[1], EquivalentMarker)
        /\ IsCommentLine(lines[2])
        /\ ~Contains(lines[2], EquivalentMarker)
        /\ lines[2][1] = " "
        /\ Contains(lines[3], "x")
        /\ res[1] = lines[3]

\* C8: fix_newline_display returns the displayed literal for the escaped
\* literal and returns every other input as it is.
C8_OnlyTheLiteral ==
  CalledOnce("fix_newline_display") =>
    IF arg = EscapedLiteral THEN res[1] = DisplayedLiteral ELSE res[1] = arg

C8_Witness ==
  /\ CalledOnce("fix_newline_display")
  /\ arg # EscapedLiteral
  /\ StartsWith(arg, EscapedLiteral)
  /\ res[1] = arg

\* A line is dropped because of an earlier marker line when only comment
\* lines lie between that marker line and it, itself included.
InCommentRunAfterMarker(lines, j) ==
  \E i \in 1..(j - 1) :
    /\ Contains(lines[i], EquivalentMarker)
    /\ \A k \in (i + 1)..j : IsCommentLine(lines[k])

\* C9 as stated: after a marker line only the first of two or more
\* consecutive comment lines is dropped; the second one is kept (when it
\* contains no marker substring itself).
C9_AsStated ==
  (CalledOnce("clean_code_comments") /\ ~Falsy(arg)) =>
    LET lines == Split(arg)
        kept == Range(KeptIndices(lines))
    IN /\ ResultIsKeptLines(lines, kept)
       /\ \A i \in 1..(Len(lines) - 2) :
            ( /\ Contains(lines[i], EquivalentMarker)
              /\ IsCommentLine(lines[i + 1])
              /\ IsCommentLine(lines[i + 2])
              /\ ~HasMarker(lines[i + 2]) )
              => /\ (i + 1) \notin kept
                 /\ (i + 2) \in kept

\* C9 amended: a marker line causes the whole unbroken run of comment lines
\* that follows it to be dropped, the second and later ones too, up to the
\* next line that is not a comment line.  So the result is made of exactly
\* the lines that contain no marker substring and are not in such a run.
C9_DropsWholeCommentRun ==
  (CalledOnce("clean_code_comments") /\ ~Falsy(arg)) =>
    LET lines == Split(arg)
        keptByRule == {j \in 1..Len(lines) :
                         ~HasMarker(lines[j]) /\ ~InCommentRunAfterMarker(lines, j)}
    IN res[1] = RStrip(Join(Select(lines, keptByRule)))

C9_Witness ==
  /\ CalledOnce("clean_code_comments")
  /\ ~Falsy(arg)
  /\ LET lines == Split(arg)
     IN /\ Len(lines) = 3
        /\ Contains(lines[1], EquivalentMarker)
        /\ lines[2] = <<"//">>
        /\ lines[3] = <<"//", "x">>
        /\ res[1] = <<>>

\* ------------------------------------------- claims: files and driver
Runs == 1..Len(hist)

QuestionsOf(doc) == 1..Len(doc.questions)
OptionsOf(doc, q) == 1..Len(doc.questions[q].options)

AllOptions(doc) ==
  UNION {{<<q, o>> : o \in OptionsOf(doc, q)} : q \in QuestionsOf(doc)}

\* The options the targeted patch overwrites in a run on path.
PatchedOptions(path, doc) ==
  {qo \in AllOptions(doc) :
     IsPatched(path, doc.questions[qo[1]], doc.questions[qo[1]].options[qo[2]])}

OptionAt(doc, qo) == doc.questions[qo[1]].options[qo[2]]

\* The file holds what the last run wrote.
FileIsLastWritten ==
  Len(hist) >= 1 => fs[hist[Len(hist)].path] = FileOf(hist[Len(hist)].written)

\* C4: after a run on a path that contains "operators-mc.json", every
\* option b of every question op-0001 of the written file has the
\* replacement explanation, whatever it was and whatever cleaning made of it.
C4_PatchOverrides ==
  /\ FileIsLastWritten
  /\ \A k \in Runs :
       PatchApplies(hist[k].path) =>
         \A qo \in AllOptions(hist[k].written) :
           ( /\ hist[k].written.questions[qo[1]].id = "op-0001"
             /\ OptionAt(hist[k].written, qo).id = "b" )
             => OptionAt(hist[k].written, qo).explanation = Replacement

C4_Witness ==
  /\ pc = "process_question_file"
  /\ Len(hist) >= 1
  /\ PatchApplies(hist[1].path)
  /\ Cardinality(PatchedOptions(hist[1].path, hist[1].loaded)) >= 2
  /\ \E qo \in PatchedOptions(hist[1].path, hist[1].loaded) :
       /\ OptionAt(hist[1].loaded, qo).explanation = Absent
       /\ OptionAt(hist[1].written, qo).explanation = Replacement
  /\ \E qo \in PatchedOptions(hist[1].path, hist[1].loaded) :
       /\ OptionAt(hist[1].loaded, qo).explanation = <<"Correct!", " ", "Yes.">>
       /\ hist[1].fieldMods[qo[1]].explanation[qo[2]] = 2
       /\ OptionAt(hist[1].written, qo).explanation = Replacement

\* The paths of the list that exist, among the first n, in list order.
RECURSIVE ExistingUpTo(_)
ExistingUpTo(n) ==
  IF n = 0 THEN <<>>
  ELSE LET full_path == FullPath(files_to_process[n])
       IN IF fs[full_path].exists
          THEN Append(ExistingUpTo(n - 1), full_path)
          ELSE ExistingUpTo(n - 1)

RECURSIVE SumModifications(_)
SumModifications(h) ==
  IF h = <<>> THEN 0 ELSE h[1].modifications + SumModifications(Tail(h))

\* C5: a missing path gets a warning and nothing else: the loop goes on,
\* the files processed are exactly the existing paths in list order, the
\* total is the sum of their counts, and the run only ever raises at a file
\* that exists (and does not parse).
C5_MissingFilesSkipped ==
  pc \in {"main", "done", "raised"} =>
    /\ [k \in Runs |-> hist[k].path] = ExistingUpTo(idx - 1)
    /\ total = SumModifications(hist)
    /\ \A n \in 1..(idx - 1) :
         ~fs[FullPath(files_to_process[n])].exists
           => \E k \in 1..Len(out) :
                out[k] = Line("Warning", FullPath(files_to_process[n]), 0)
    /\ pc = "raised" => fs[FullPath(files_to_process[idx])].exists
    /\ pc = "done" =>
         /\ idx = Len(files_to_process) + 1
         /\ out[Len(out) - 1] = Line("Total", <<>>, SumModifications(hist))

C5_Witness ==
  /\ pc = "done"
  /\ ~fs[FullPath(files_to_process[1])].exists
  /\ ~fs[FullPath(files_to_process[3])].exists
  /\ Len(hist) = 3
  /\ hist[1].path = FullPath(files_to_process[2])
  /\ hist[1].modifications = 5
  /\ hist[3].modifications = 4
  /\ total = 9

\* w is e without some of its first tokens.
IsProperSuffix(w, e) ==
  Len(w) < Len(e) /\ w = SubSeq(e, Len(e) - Len(w) + 1, Len(e))

\* The tokens cut from e to get w are prefix literals and whitespace only,
\* and w does not start with whitespace.
StripsPrefixes(w, e) ==
  /\ IsProperSuffix(w, e)
  /\ \A k \in 1..(Len(e) - Len(w)) :
       e[k] \in {"Correct!", "Incorrect."} \cup Whitespace
  /\ w # <<>> => w[1] \notin Whitespace

HasSpacedPrefix(option) ==
  /\ option.explanation \notin {Absent, None}
  /\ StartsWithSpacedPrefix(option.explanation)

\* C6 as stated: an explanation that begins with "Correct! " or
\* "Incorrect. " loses the prefix in the first run, which counts one
\* modification for the field; the second run leaves it and counts none.
C6_AsStated ==
  pc = "process_question_file" =>
    \A qo \in (IF Len(hist) >= 1 THEN AllOptions(hist[1].loaded) ELSE {}) :
      HasSpacedPrefix(OptionAt(hist[1].loaded, qo)) =>
        /\ IsProperSuffix(OptionAt(hist[1].written, qo).explanation,
                          OptionAt(hist[1].loaded, qo).explanation)
        /\ hist[1].fieldMods[qo[1]].explanation[qo[2]] = 1
        /\ Len(hist) >= 2 =>
             /\ OptionAt(hist[2].written, qo).explanation
                  = OptionAt(hist[1].written, qo).explanation
             /\ hist[2].fieldMods[qo[1]].explanation[qo[2]] = 0

\* C6 amended: for an option the targeted patch does not overwrite, an
\* explanation that begins with "Correct! " or "Incorrect. " loses its
\* leading prefixes in the first run, which counts one modification for the
\* field; the second run leaves it and counts none provided what the first
\* run left does not begin with "Correct!" or "Incorrect." again.
C6_StripOnceThenStable ==
  pc = "process_question_file" =>
    \A qo \in (IF Len(hist) >= 1 THEN AllOptions(hist[1].loaded) ELSE {}) :
      ( /\ HasSpacedPrefix(OptionAt(hist[1].loaded, qo))
        /\ qo \notin PatchedOptions(hist[1].path, hist[1].loaded) ) =>
        /\ StripsPrefixes(OptionAt(hist[1].written, qo).explanation,
                          OptionAt(hist[1].loaded, qo).explanation)
        /\ hist[1].fieldMods[qo[1]].explanation[qo[2]] = 1
        /\ ( /\ Len(hist) >= 2
             /\ ~StartsWithPrefixLiteral(OptionAt(hist[1].written, qo).explanation) )
             => /\ OptionAt(hist[2].written, qo).explanation
                     = OptionAt(hist[1].written, qo).explanation
                /\ hist[2].fieldMods[qo[1]].explanation[qo[2]] = 0

C6_Witness ==
  /\ pc = "process_question_file"
  /\ Len(hist) >= 2
  /\ \E qo \in AllOptions(hist[1].loaded) :
       /\ qo \notin PatchedOptions(hist[1].path, hist[1].loaded)
       /\ OptionAt(hist[1].loaded, qo).explanation = <<"Correct!", " ", "Yes.">>
       /\ OptionAt(hist[1].written, qo).explanation = Yes
       /\ hist[1].fieldMods[qo[1]].explanation[qo[2]] = 1
       /\ OptionAt(hist[2].written, qo).explanation = Yes
       /\ hist[2].fieldMods[qo[1]].explanation[qo[2]] = 0

\* A document with the three fields the script may set blanked out.
MaskOption(option) == [option EXCEPT !.text = <<>>, !.explanation = <<>>]

MaskQuestion(question) ==
  [question EXCEPT
     !.options = [o \in 1..Len(@) |-> MaskOption(@[o])],
     !.codeExample = [@ EXCEPT !.code = <<>>]]

Mask(doc) ==
  [doc EXCEPT !.questions = [q \in 1..Len(@) |-> MaskQuestion(@[q])]]

\* C7: what a run writes is what it loaded but for the text and
\* explanation of options and the code of code examples: the same
\* questions and options in the same order, every other key as it was.
C7_Frame ==
  /\ FileIsLastWritten
  /\ \A k \in Runs : Mask(hist[k].written) = Mask(hist[k].loaded)

C7_Witness ==
  /\ pc = "process_question_file"
  /\ Len(hist) >= 1
  /\ Len(hist[1].loaded.questions) >= 2
  /\ \E q \in QuestionsOf(hist[1].loaded) :
       /\ ~hist[1].loaded.questions[q].codeExample.present
       /\ ~hist[1].written.questions[q].codeExample.present
  /\ \E q \in QuestionsOf(hist[1].loaded) :
       hist[1].written.questions[q].codeExample.code
         # hist[1].loaded.questions[q].codeExample.code
  /\ \E qo \in AllOptions(hist[1].loaded) :
       OptionAt(hist[1].written, qo).explanation
         # OptionAt(hist[1].loaded, qo).explanation

Differs(a, b) == IF a # b THEN 1 ELSE 0

\* The number of text, explanation and code fields written with a value
\* other than the one loaded.
ChangedFields(loaded, written) ==
  SumSeq([q \in 1..Len(loaded.questions) |->
            SumSeq([o \in 1..Len(loaded.questions[q].options) |->
                      Differs(OptionAt(written, <<q, o>>).explanation,
                              OptionAt(loaded, <<q, o>>).explanation)
                        + Differs(OptionAt(written, <<q, o>>).text,
                                  OptionAt(loaded, <<q, o>>).text)])
              + Differs(written.questions[q].codeExample.code,
                        loaded.questions[q].codeExample.code)])

\* C10 as stated: the count a run returns is the number of fields written
\* with another value than loaded, so 0 for a run that writes back what it
\* loaded, for operators-mc.json too.
C10_AsStated ==
  pc = "process_question_file" =>
    \A k \in Runs :
      hist[k].modifications = ChangedFields(hist[k].loaded, hist[k].written)

\* The generic pass alters the explanation (and counts it).
CleaningAlters(option) ==
  /\ option.explanation \notin {Absent, None}
  /\ StartsWithPrefixLiteral(option.explanation)

\* C10 amended: the count is the number of fields the generic pass writes
\* with another value than loaded, plus one for every option the targeted
\* patch overwrites, changed by it or not.  So the count is the number of
\* changed fields for a run without a patched option (0 when it writes back
\* what it loaded), and for a run with patched options it is: the changed
\* fields of the other options and of the code examples, plus for each
\* patched option one, one more if the generic pass altered its
\* explanation first, and one more if its text changed.
C10_CountsChangesAndPatches ==
  pc = "process_question_file" =>
    \A k \in Runs :
      LET loaded == hist[k].loaded
          written == hist[k].written
          patched == PatchedOptions(hist[k].path, loaded)
          OfPatched(qo) ==
            1 + (IF CleaningAlters(OptionAt(loaded, qo)) THEN 1 ELSE 0)
              - Differs(OptionAt(written, qo).explanation,
                        OptionAt(loaded, qo).explanation)
          RECURSIVE Extra(_)
          Extra(S) ==
            IF S = {} THEN 0
            ELSE LET qo == CHOOSE x \in S : TRUE
                 IN OfPatched(qo) + Extra(S \ {qo})
      IN /\ hist[k].modifications = ChangedFields(loaded, written) + Extra(patched)
         /\ patched = {} => hist[k].modifications = ChangedFields(loaded, written)
         /\ (patched = {} /\ written = loaded) => hist[k].modifications = 0

C10_Witness ==
  /\ pc = "process_question_file"
  /\ Len(hist) >= 2
  /\ hist[2].written = hist[2].loaded
  /\ Cardinality(PatchedOptions(hist[2].path, hist[2].loaded)) = 2
  /\ hist[2].modifications = 2
  /\ hist[1].modifications > 2

====
